---------------------------- MODULE Spec2Model ----------------------------
(***************************************************************************)
(* Model of the icon build scripts of jamiller619/symbols:                 *)
(*   src/src/install.ts  main = ensureSvgIcons; buildReactComponents;      *)
(*                       formatComponents, with toComponentName and        *)
(*                       detectSvgDir                                      *)
(*   src/src/browser.js  loadIconNames                                     *)
(*                                                                         *)
(* A string is a sequence of UTF-16 code units.  An ASCII code unit is     *)
(* written as the one-character string itself, a non-ASCII code unit as    *)
(* its code point name ("U+00E9" is e-acute, "U+00C9" its capital).        *)
(***************************************************************************)
EXTENDS Naturals, Sequences, FiniteSets, TLC

VARIABLES
  pc,            \* position of the running script
  svgKind,       \* what fs.stat finds at svgDir
  svgEntries,    \* the entries of svgDir when it is a directory: name -> kind
  compKind,      \* what is at componentsDir
  compFiles,     \* the files of componentsDir: file name -> content
  svgFiles,      \* buildReactComponents: the filtered listing, in listing order
  idx,           \* buildReactComponents: index in svgFiles of the file in hand
  fileName,      \* toComponentName: its argument (svg.name in the loop)
  componentName, \* toComponentName: its result (componentName in the loop)
  iconNames,     \* browser.js: what loadIconNames returned
  calls,         \* what the run did to its collaborators and to the source files
  error,         \* the error main rejected with, NoError while there is none
  prevOut,       \* file names in componentsDir when the previous run's build returned
  lastOut,       \* file names in componentsDir when this run's build returned
  compBefore     \* componentsDir as the run found it: <<compKind, compFiles>>

vars == <<pc, svgKind, svgEntries, compKind, compFiles, svgFiles, idx, fileName,
          componentName, iconNames, calls, error, prevOut, lastOut, compBefore>>

-----------------------------------------------------------------------------
(* Bounds of the model. *)

\* longest file name stem the name specification draws
MaxLen == 3
\* most entries a source directory holds
MaxFiles == 2

-----------------------------------------------------------------------------
(* Characters. *)

Lower == <<"a","b","c","d","e","f","g","h","i","j","k","l","m",
           "n","o","p","q","r","s","t","u","v","w","x","y","z">>
Upper == <<"A","B","C","D","E","F","G","H","I","J","K","L","M",
           "N","O","P","Q","R","S","T","U","V","W","X","Y","Z">>
Digits == <<"0","1","2","3","4","5","6","7","8","9">>

Range(s) == {s[i] : i \in DOMAIN s}

\* the character classes [A-Za-z] and [a-zA-Z0-9] of the regular expressions
LowerLetters == Range(Lower)
UpperLetters == Range(Upper)
AsciiLetters == LowerLetters \cup UpperLetters
AsciiAlnums == AsciiLetters \cup Range(Digits)

IsAsciiLetter(c) == c \in AsciiLetters
IsAsciiAlnum(c) == c \in AsciiAlnums

\* String.prototype.toUpperCase on one code unit
ToUpperCase(c) ==
  IF c \in LowerLetters
    THEN Upper[CHOOSE i \in DOMAIN Lower : Lower[i] = c]
    ELSE IF c = "U+00E9" THEN "U+00C9" ELSE c

\* String.prototype.toLowerCase on one code unit (the /i flag folds case)
ToLowerCase(c) ==
  IF c \in UpperLetters
    THEN Lower[CHOOSE i \in DOMAIN Upper : Upper[i] = c]
    ELSE IF c = "U+00C9" THEN "U+00E9" ELSE c

DotSvg == <<".", "s", "v", "g">>
DotTsx == <<".", "t", "s", "x">>
IconToken == <<"I", "c", "o", "n">>

\* String.prototype.endsWith: an exact, case-sensitive comparison
EndsWith(s, suffix) ==
  /\ Len(s) >= Len(suffix)
  /\ SubSeq(s, Len(s) - Len(suffix) + 1, Len(s)) = suffix

\* whether /\.svg$/i matches: the last four code units are ".svg" in any case
MatchesSvgSuffix(s) ==
  /\ Len(s) >= Len(DotSvg)
  /\ \A i \in 1..Len(DotSvg) :
       ToLowerCase(s[Len(s) - Len(DotSvg) + i]) = DotSvg[i]

-----------------------------------------------------------------------------
(* toComponentName, install.ts 123-133. *)

\* fileName.replace(/\.svg$/, ''): the replacement without the i flag
StripSvgCaseSensitive(s) ==
  IF EndsWith(s, DotSvg) THEN SubSeq(s, 1, Len(s) - Len(DotSvg)) ELSE s
\* fileName.replace(/\.svg$/i, '')
StripSvg(s) ==
  IF MatchesSvgSuffix(s) THEN SubSeq(s, 1, Len(s) - Len(DotSvg)) ELSE s

\* base.split(/[^a-zA-Z0-9]+/): the pieces between the maximal runs of
\* characters that are not ASCII letters or digits.  As in JavaScript a run at
\* the start or the end leaves an empty piece there, and the empty string
\* splits into one empty piece.
RECURSIVE SplitFrom(_, _, _, _)
SplitFrom(s, i, cur, inSep) ==
  IF i > Len(s) THEN <<cur>>
  ELSE IF IsAsciiAlnum(s[i]) THEN SplitFrom(s, i + 1, Append(cur, s[i]), FALSE)
  ELSE IF inSep THEN SplitFrom(s, i + 1, cur, TRUE)
  ELSE <<cur>> \o SplitFrom(s, i + 1, <<>>, TRUE)

Split(s) == SplitFrom(s, 1, <<>>, FALSE)

\* .filter(Boolean): the empty string is the only falsy piece
FilterBoolean(parts) == SelectSeq(parts, LAMBDA p : p # <<>>)

\* part.charAt(0).toUpperCase() + part.slice(1)
Capitalize(part) ==
  IF part = <<>> THEN <<>> ELSE <<ToUpperCase(part[1])>> \o Tail(part)

\* .map(...).join('')
RECURSIVE JoinCapitalized(_)
JoinCapitalized(parts) ==
  IF parts = <<>> THEN <<>>
  ELSE Capitalize(Head(parts)) \o JoinCapitalized(Tail(parts))

\* name || 'Icon'
SafeName(name) == IF name = <<>> THEN IconToken ELSE name

\* `${safeName}Icon` whatever the first character
AffixAlwaysSuffix(safeName) == safeName \o IconToken
\* /^[A-Za-z]/.test(safeName) ? `${safeName}Icon` : `Icon${safeName}`
Affix(safeName) ==
  IF safeName # <<>> /\ IsAsciiLetter(safeName[1])
    THEN safeName \o IconToken
    ELSE IconToken \o safeName

toComponentName(name) ==
  Affix(SafeName(JoinCapitalized(FilterBoolean(Split(StripSvg(name))))))


-----------------------------------------------------------------------------
(* The file system the scripts work on. *)

\* relative(svgDir) and relative(componentsDir), as the messages print them
SvgDirPath == "src/sf-symbols"
ComponentsDirPath == "dist/components"

ArrowUpSvg == <<"a","r","r","o","w","-","u","p",".","s","v","g">>
TwoCirclesSvg == <<"2","-","c","i","r","c","l","e","s",".","s","v","g">>
ADashBSvg == <<"a","-","b",".","s","v","g">>
AUnderBSvg == <<"a","_","b",".","s","v","g">>
IconUpperSvg == <<"i","c","o","n",".","S","V","G">>
ReadmeTxt == <<"r","e","a","d","m","e",".","t","x","t">>

IconSvg == <<"i","c","o","n",".","s","v","g">>

\* the names a regular file of the source directory is drawn from
NamePool == {ArrowUpSvg, TwoCirclesSvg, ADashBSvg, AUnderBSvg, IconUpperSvg, ReadmeTxt}

\* the source directories: at most MaxFiles entries, regular files with names
\* of NamePool and possibly a subdirectory named icon.svg
SvgDirs ==
  {[n \in S |-> IF n = IconSvg THEN "dir" ELSE "file"] :
     S \in {T \in SUBSET (NamePool \cup {IconSvg}) : Cardinality(T) <= MaxFiles}}

EmptyDir == [n \in {} |-> n]

\* the text of a source file: each file has a text of its own
SvgContent(name) == [kind |-> "svg", src |-> name, name |-> <<>>, formatted |-> FALSE]
\* what an earlier build left in the destination
StaleContent == [kind |-> "stale", src |-> <<>>, name |-> <<>>, formatted |-> FALSE]
\* what a failed fs.writeFile may leave: a truncated file
PartialContent == [kind |-> "partial", src |-> <<>>, name |-> <<>>, formatted |-> FALSE]

ArrowUpIconTsx == <<"A","r","r","o","w","U","p","I","c","o","n",".","t","s","x">>
Icon2CirclesTsx == <<"I","c","o","n","2","C","i","r","c","l","e","s",".","t","s","x">>
OldTsx == <<"O","l","d",".","t","s","x">>

\* the destinations a run may find: absent, a regular file, out of reach of
\* fs.stat, or a directory of files left by an earlier build
StaleDirs == UNION {[S -> {StaleContent}] : S \in SUBSET {ArrowUpIconTsx, OldTsx}}

Put(f, k, v) == [x \in DOMAIN f \cup {k} |-> IF x = k THEN v ELSE f[x]]

\* the orders fs.readdir may list a directory in
Listings(dir) ==
  {f \in [1..Cardinality(DOMAIN dir) -> DOMAIN dir] :
     \A i, j \in DOMAIN f : i # j => f[i] # f[j]}

None == <<>>
Some(x) == <<x>>

NoError == [stage |-> "none", kind |-> "none", path |-> "none"]
Err(stage, kind, path) == [stage |-> stage, kind |-> kind, path |-> path]

NoCalls ==
  [generator |-> FALSE, formatter |-> FALSE, readdir |-> FALSE, rm |-> FALSE,
   mkdir |-> FALSE, read |-> {}, transform |-> {}, write |-> {}]

-----------------------------------------------------------------------------
(* install.ts *)

\* detectSvgDir without its stats.isFile() line
detectSvgDirNoFile(kind) ==
  IF kind = "directory" THEN "directory" ELSE "missing"
\* detectSvgDir, 135-150: fs.stat on svgDir.  A path that is neither a
\* directory nor a regular file falls through to the last return.
detectSvgDir(kind) ==
  IF kind = "directory" THEN "directory"
  ELSE IF kind = "file" THEN "file"
  ELSE "missing"

\* entries.filter((entry) => entry.isFile() && entry.name.endsWith('.svg'))
IsSvgFile(dir, name) == dir[name] = "file" /\ EndsWith(name, DotSvg)

\* the filter of a loop that stops one entry short
FilterSvgDropLast(dir, listing) ==
  LET all == SelectSeq(listing, LAMBDA n : IsSvgFile(dir, n))
  IN  IF all = <<>> THEN all ELSE SubSeq(all, 1, Len(all) - 1)
FilterSvg(dir, listing) == SelectSeq(listing, LAMBDA n : IsSvgFile(dir, n))

\* a build without the early return
NothingNever(files) == FALSE
\* svgFiles.length === 0
NothingToTransform(files) == Len(files) = 0

\* a build that does not clear the destination
RmKeep(files) == files
\* fs.rm(componentsDir, { recursive: true, force: true }): nothing is left
RmFiles(files) == EmptyDir

\* transform(svgContent, {...}, { componentName }): the component's source
Transform(content, name) ==
  [kind |-> "component", src |-> content.src, name |-> name, formatted |-> FALSE]

\* path.join(componentsDir, `${componentName}.tsx`)
ComponentFile(name) == name \o DotTsx

\* a write that leaves an existing file alone
WriteKeepExisting(files, path, text) ==
  IF path \in DOMAIN files THEN files ELSE Put(files, path, text)
\* fs.writeFile(componentPath, componentSource, 'utf8'): creates or replaces
WriteFile(files, path, text) == Put(files, path, text)

\* prettier --write: every file rewritten in place
Prettier(files) == [f \in DOMAIN files |-> [files[f] EXCEPT !.formatted = TRUE]]

Fail(e) ==
  /\ pc' = "failed"
  /\ error' = e

\* no script is running: none was started yet, or the last one has exited
Idle == pc \in {"idle", "done", "failed"}

\* main, 13-17, started: a fresh process
Main ==
  /\ Idle
  /\ pc' = "ensureSvgIcons"
  /\ svgFiles' = <<>>
  /\ idx' = 0
  /\ fileName' = <<>>
  /\ componentName' = <<>>
  /\ iconNames' = None
  /\ calls' = NoCalls
  /\ error' = NoError
  /\ prevOut' = lastOut
  /\ lastOut' = None
  /\ compBefore' = <<compKind, compFiles>>
  /\ UNCHANGED <<svgKind, svgEntries, compKind, compFiles>>

\* ensureSvgIcons, 19-41, up to the call of the generator
EnsureSvgIcons ==
  /\ pc = "ensureSvgIcons"
  /\ IF svgKind = "inaccessible"
       THEN Fail(Err("ensureSvgIcons", "stat", SvgDirPath)) /\ UNCHANGED calls
     ELSE IF detectSvgDir(svgKind) = "directory"
       THEN pc' = "buildReactComponents" /\ UNCHANGED <<error, calls>>
     ELSE IF detectSvgDir(svgKind) = "file"
       THEN Fail(Err("ensureSvgIcons", "not-a-directory", SvgDirPath))
            /\ UNCHANGED calls
     ELSE /\ pc' = "execa sf-symbols-svg"
          /\ calls' = [calls EXCEPT !.generator = TRUE]
          /\ UNCHANGED error
  /\ UNCHANGED <<svgKind, svgEntries, compKind, compFiles, svgFiles, idx,
                 fileName, componentName, iconNames, prevOut, lastOut, compBefore>>

\* the generator, 37-40, exits with zero: it has written the source
\* directory, or has left the path as it was
GeneratorExitsZero ==
  /\ pc = "execa sf-symbols-svg"
  /\ \/ \E dir \in SvgDirs :
          /\ svgKind' = "directory"
          /\ svgEntries' = dir
     \/ UNCHANGED <<svgKind, svgEntries>>
  /\ pc' = "buildReactComponents"
  /\ prevOut' = None
  /\ UNCHANGED <<compKind, compFiles, svgFiles, idx, fileName, componentName,
                 iconNames, calls, error, lastOut, compBefore>>

\* the generator exits with another code and execa rejects; it may have
\* written the source directory, or part of it, before
GeneratorExitsNonZero ==
  /\ pc = "execa sf-symbols-svg"
  /\ \/ \E dir \in SvgDirs :
          /\ svgKind' = "directory"
          /\ svgEntries' = dir
     \/ UNCHANGED <<svgKind, svgEntries>>
  /\ Fail(Err("ensureSvgIcons", "exit-code", SvgDirPath))
  /\ UNCHANGED <<compKind, compFiles, svgFiles, idx, fileName, componentName,
                 iconNames, calls, prevOut, lastOut, compBefore>>

\* buildReactComponents, 43-50: the probe of the source path
BuildReactComponents ==
  /\ pc = "buildReactComponents"
  /\ IF svgKind = "inaccessible"
       THEN Fail(Err("buildReactComponents", "stat", SvgDirPath))
     ELSE IF detectSvgDir(svgKind) # "directory"
       THEN Fail(Err("buildReactComponents", "svg-dir-not-found", SvgDirPath))
     ELSE pc' = "readdir" /\ UNCHANGED error
  /\ UNCHANGED <<svgKind, svgEntries, compKind, compFiles, svgFiles, idx,
                 fileName, componentName, iconNames, calls, prevOut, lastOut,
                 compBefore>>

\* fs.readdir resolves, 52-62: the listing, the filter and the early return
Readdir ==
  /\ pc = "readdir"
  /\ \E listing \in Listings(svgEntries) :
       svgFiles' = FilterSvg(svgEntries, listing)
  /\ calls' = [calls EXCEPT !.readdir = TRUE]
  /\ IF NothingToTransform(svgFiles')
       THEN /\ pc' = "formatComponents"
            /\ lastOut' = Some(DOMAIN compFiles)
       ELSE /\ pc' = "rm"
            /\ UNCHANGED lastOut
  /\ UNCHANGED <<svgKind, svgEntries, compKind, compFiles, idx, fileName,
                 componentName, iconNames, error, prevOut, compBefore>>

\* fs.readdir rejects, 52: the directory may not be listed, or was removed
\* after the probe
ReaddirRejects ==
  /\ pc = "readdir"
  /\ \/ UNCHANGED <<svgKind, svgEntries>>
     \/ svgKind' = "missing" /\ svgEntries' = EmptyDir
  /\ calls' = [calls EXCEPT !.readdir = TRUE]
  /\ Fail(Err("readdir", "io", SvgDirPath))
  /\ UNCHANGED <<compKind, compFiles, svgFiles, idx, fileName, componentName,
                 iconNames, prevOut, lastOut, compBefore>>


\* fs.rm(componentsDir, ...), 64: whatever is at the path is removed, a path
\* fs.stat cannot follow included
Rm ==
  /\ pc = "rm"
  /\ compKind' = "missing"
  /\ compFiles' = RmFiles(compFiles)
  /\ calls' = [calls EXCEPT !.rm = TRUE]
  /\ pc' = "mkdir"
  /\ UNCHANGED <<svgKind, svgEntries, svgFiles, idx, fileName, componentName,
                 iconNames, error, prevOut, lastOut, compBefore>>

\* fs.rm rejects: what is at the path (a dangling link where fs.stat finds
\* nothing included) cannot be removed, or the removal of a directory stops
\* half way
RmRejects ==
  /\ pc = "rm"
  /\ \E left \in SUBSET DOMAIN compFiles :
       compFiles' = [f \in left |-> compFiles[f]]
  /\ calls' = [calls EXCEPT !.rm = TRUE]
  /\ Fail(Err("rm", "io", ComponentsDirPath))
  /\ UNCHANGED <<svgKind, svgEntries, compKind, svgFiles, idx, fileName,
                 componentName, iconNames, prevOut, lastOut, compBefore>>

\* fs.mkdir(componentsDir, { recursive: true }), 65
Mkdir ==
  /\ pc = "mkdir"
  /\ compKind' = "directory"
  /\ calls' = [calls EXCEPT !.mkdir = TRUE]
  /\ pc' = "loop"
  /\ idx' = 1
  /\ UNCHANGED <<svgKind, svgEntries, compFiles, svgFiles, fileName,
                 componentName, iconNames, error, prevOut, lastOut, compBefore>>

MkdirRejects ==
  /\ pc = "mkdir"
  /\ calls' = [calls EXCEPT !.mkdir = TRUE]
  /\ Fail(Err("mkdir", "io", ComponentsDirPath))
  /\ UNCHANGED <<svgKind, svgEntries, compKind, compFiles, svgFiles, idx,
                 fileName, componentName, iconNames, prevOut, lastOut, compBefore>>

InLoop == pc = "loop" /\ idx \in 1..Len(svgFiles)

\* fs.readFile resolves, 70-74: the name is derived and transform is called
ReadFileResolves ==
  /\ InLoop
  /\ fileName' = svgFiles[idx]
  /\ componentName' = toComponentName(svgFiles[idx])
  /\ calls' = [calls EXCEPT !.read = @ \cup {svgFiles[idx]}]
  /\ pc' = "transform"
  /\ UNCHANGED <<svgKind, svgEntries, compKind, compFiles, svgFiles, idx,
                 iconNames, error, prevOut, lastOut, compBefore>>

\* fs.readFile rejects in a loop that started every read at once
ReadFileRejectsUnawaited ==
  /\ InLoop
  /\ fileName' = svgFiles[idx]
  /\ calls' = [calls EXCEPT !.read = Range(svgFiles)]
  /\ Fail(Err("readFile", "io", SvgDirPath))
  /\ UNCHANGED <<svgKind, svgEntries, compKind, compFiles, svgFiles, idx,
                 componentName, iconNames, prevOut, lastOut, compBefore>>
\* fs.readFile rejects, 71
ReadFileRejects ==
  /\ InLoop
  /\ fileName' = svgFiles[idx]
  /\ calls' = [calls EXCEPT !.read = @ \cup {svgFiles[idx]}]
  /\ Fail(Err("readFile", "io", SvgDirPath))
  /\ UNCHANGED <<svgKind, svgEntries, compKind, compFiles, svgFiles, idx,
                 componentName, iconNames, prevOut, lastOut, compBefore>>

\* transform resolves, 74-87: fs.writeFile is called with its result
TransformResolves ==
  /\ pc = "transform"
  /\ calls' = [calls EXCEPT !.transform = @ \cup {fileName}]
  /\ pc' = "writeFile"
  /\ UNCHANGED <<svgKind, svgEntries, compKind, compFiles, svgFiles, idx,
                 fileName, componentName, iconNames, error, prevOut, lastOut,
                 compBefore>>

\* transform rejects, 74
TransformRejects ==
  /\ pc = "transform"
  /\ calls' = [calls EXCEPT !.transform = @ \cup {fileName}]
  /\ Fail(Err("transform", "transformer", SvgDirPath))
  /\ UNCHANGED <<svgKind, svgEntries, compKind, compFiles, svgFiles, idx,
                 fileName, componentName, iconNames, prevOut, lastOut,
                 compBefore>>

\* fs.writeFile resolves, 87-88: the turn is over
WriteFileResolves ==
  /\ pc = "writeFile"
  /\ compFiles' = WriteFile(compFiles, ComponentFile(componentName),
                            Transform(SvgContent(fileName), componentName))
  /\ calls' = [calls EXCEPT !.write = @ \cup {fileName}]
  /\ idx' = idx + 1
  /\ pc' = "loop"
  /\ UNCHANGED <<svgKind, svgEntries, compKind, svgFiles, fileName,
                 componentName, iconNames, error, prevOut, lastOut, compBefore>>

\* fs.writeFile rejects, 87: the file is not written, or is left truncated
WriteFileRejects ==
  /\ pc = "writeFile"
  /\ calls' = [calls EXCEPT !.write = @ \cup {fileName}]
  /\ compFiles' \in {compFiles,
                     Put(compFiles, ComponentFile(componentName), PartialContent)}
  /\ Fail(Err("writeFile", "io", ComponentsDirPath))
  /\ UNCHANGED <<svgKind, svgEntries, compKind, svgFiles, idx, fileName,
                 componentName, iconNames, prevOut, lastOut, compBefore>>

\* the loop is over and buildReactComponents returns, 90-93
BuildReturns ==
  /\ pc = "loop"
  /\ idx > Len(svgFiles)
  /\ pc' = "formatComponents"
  /\ lastOut' = Some(DOMAIN compFiles)
  /\ UNCHANGED <<svgKind, svgEntries, compKind, compFiles, svgFiles, idx,
                 fileName, componentName, iconNames, calls, error, prevOut,
                 compBefore>>

\* formatComponents, 95-121, up to the call of the formatter
FormatComponents ==
  /\ pc = "formatComponents"
  /\ IF compKind = "inaccessible"
       THEN Fail(Err("formatComponents", "stat", ComponentsDirPath))
            /\ UNCHANGED calls
     ELSE IF compKind = "directory"
       THEN /\ pc' = "execa prettier"
            /\ calls' = [calls EXCEPT !.formatter = TRUE]
            /\ UNCHANGED error
     ELSE pc' = "done" /\ UNCHANGED <<error, calls>>
  /\ UNCHANGED <<svgKind, svgEntries, compKind, compFiles, svgFiles, idx,
                 fileName, componentName, iconNames, prevOut, lastOut, compBefore>>

\* the formatter, 117-120, exits with zero
PrettierExitsZero ==
  /\ pc = "execa prettier"
  /\ compFiles' = Prettier(compFiles)
  /\ pc' = "done"
  /\ UNCHANGED <<svgKind, svgEntries, compKind, svgFiles, idx, fileName,
                 componentName, iconNames, calls, error, prevOut, lastOut,
                 compBefore>>

PrettierExitsNonZero ==
  /\ pc = "execa prettier"
  /\ Fail(Err("formatComponents", "exit-code", ComponentsDirPath))
  /\ UNCHANGED <<svgKind, svgEntries, compKind, compFiles, svgFiles, idx,
                 fileName, componentName, iconNames, calls, prevOut, lastOut,
                 compBefore>>

-----------------------------------------------------------------------------
(* browser.js *)

\* String.prototype.localeCompare on the names of NamePool: punctuation sorts
\* before digits and digits before letters; letters compare without case
\* first, and a lower-case letter goes before its capital when all else is
\* equal.
Collation ==
  <<"_", "-", ".">> \o Digits \o Lower

\* the place of every character of the names in the collation
CollationRanks ==
  [c \in Range(Collation) \cup UpperLetters |->
     CHOOSE i \in DOMAIN Collation : Collation[i] = ToLowerCase(c)]

CollationRank(c) == CollationRanks[c]

RECURSIVE PrimaryCompare(_, _)
PrimaryCompare(a, b) ==
  IF a = <<>> /\ b = <<>> THEN 0
  ELSE IF a = <<>> THEN 0 - 1
  ELSE IF b = <<>> THEN 1
  ELSE IF CollationRank(Head(a)) < CollationRank(Head(b)) THEN 0 - 1
  ELSE IF CollationRank(Head(a)) > CollationRank(Head(b)) THEN 1
  ELSE PrimaryCompare(Tail(a), Tail(b))

RECURSIVE CaseCompare(_, _)
CaseCompare(a, b) ==
  IF a = <<>> \/ b = <<>> THEN 0
  ELSE IF Head(a) = Head(b) THEN CaseCompare(Tail(a), Tail(b))
  ELSE IF Head(a) \in LowerLetters THEN 0 - 1
  ELSE 1

LocaleCompare(a, b) ==
  LET primary == PrimaryCompare(a, b)
  IN  IF primary # 0 THEN primary ELSE CaseCompare(a, b)

\* Array.prototype.sort((a, b) => a.localeCompare(b))
RECURSIVE Insert(_, _)
Insert(sorted, x) ==
  IF sorted = <<>> THEN <<x>>
  ELSE IF LocaleCompare(x, Head(sorted)) < 0 THEN <<x>> \o sorted
  ELSE <<Head(sorted)>> \o Insert(Tail(sorted), x)

RECURSIVE Sort(_)
Sort(names) ==
  IF names = <<>> THEN <<>> ELSE Insert(Sort(SubSeq(names, 1, Len(names) - 1)),
                                        names[Len(names)])

\* loadIconNames, 29-36, of browser.js, a script of its own that is run while
\* install.ts is not running
LoadIconNames ==
  /\ Idle
  /\ svgKind = "directory"
  /\ iconNames' \in
       {Some(Sort(SelectSeq(listing, LAMBDA n : IsSvgFile(svgEntries, n)))) :
          listing \in Listings(svgEntries)}
  /\ UNCHANGED <<pc, svgKind, svgEntries, compKind, compFiles, svgFiles, idx,
                 fileName, componentName, calls, error, prevOut, lastOut,
                 compBefore>>

-----------------------------------------------------------------------------
(* The runs of install.ts, any number of them, with loadIconNames between. *)

Init ==
  /\ pc = "idle"
  /\ svgKind \in {"missing", "file", "other", "inaccessible", "directory"}
  /\ svgEntries \in (IF svgKind = "directory" THEN SvgDirs ELSE {EmptyDir})
  /\ compKind \in {"missing", "file", "inaccessible", "directory"}
  /\ compFiles \in (IF compKind = "directory" THEN StaleDirs ELSE {EmptyDir})
  /\ svgFiles = <<>>
  /\ idx = 0
  /\ fileName = <<>>
  /\ componentName = <<>>
  /\ iconNames = None
  /\ calls = NoCalls
  /\ error = NoError
  /\ prevOut = None
  /\ lastOut = None
  /\ compBefore = <<compKind, compFiles>>

Next ==
  \/ Main
  \/ EnsureSvgIcons
  \/ GeneratorExitsZero
  \/ GeneratorExitsNonZero
  \/ BuildReactComponents
  \/ Readdir
  \/ ReaddirRejects
  \/ Rm
  \/ RmRejects
  \/ Mkdir
  \/ MkdirRejects
  \/ ReadFileResolves
  \/ ReadFileRejects
  \/ TransformResolves
  \/ TransformRejects
  \/ WriteFileResolves
  \/ WriteFileRejects
  \/ BuildReturns
  \/ FormatComponents
  \/ PrettierExitsZero
  \/ PrettierExitsNonZero
  \/ LoadIconNames

Spec == Init /\ [][Next]_vars

-----------------------------------------------------------------------------
(* toComponentName on its own, over every file name of a bounded set. *)

Alphabet == {"a", "B", "1", "-", "_", ".", "U+00E9"}

Stems == UNION {[1..n -> Alphabet] : n \in 0..MaxLen}

Extensions ==
  {<<>>, DotSvg, <<".","S","V","G">>, <<".","S","v","g">>, <<"s","v","g">>,
   <<".","s","v","g","x">>, DotSvg \o DotSvg}

CircleSvg == <<"c","i","r","c","l","e",".","s","v","g">>
OneCircleSvg == <<"1","-","c","i","r","c","l","e",".","s","v","g">>
UnderscoresSvg == <<"_","_","_",".","s","v","g">>
ADotBSvg == <<"a",".","b",".","s","v","g">>

NameInputs ==
  {stem \o ext : stem \in Stems, ext \in Extensions}
    \cup {CircleSvg, OneCircleSvg, UnderscoresSvg, ADashBSvg, AUnderBSvg,
          ADotBSvg, ArrowUpSvg, TwoCirclesSvg}

InitName ==
  /\ pc = "toComponentName"
  /\ fileName \in NameInputs
  /\ componentName = <<>>
  /\ svgKind = "missing"
  /\ svgEntries = EmptyDir
  /\ compKind = "missing"
  /\ compFiles = EmptyDir
  /\ svgFiles = <<>>
  /\ idx = 0
  /\ iconNames = None
  /\ calls = NoCalls
  /\ error = NoError
  /\ prevOut = None
  /\ lastOut = None
  /\ compBefore = <<compKind, compFiles>>

\* toComponentName called on fileName, 123-133
CallToComponentName ==
  /\ pc = "toComponentName"
  /\ componentName' = toComponentName(fileName)
  /\ pc' = "returned"
  /\ UNCHANGED <<svgKind, svgEntries, compKind, compFiles, svgFiles, idx,
                 fileName, iconNames, calls, error, prevOut, lastOut, compBefore>>

NextName == CallToComponentName

SpecName == InitName /\ [][NextName]_vars


-----------------------------------------------------------------------------
(* The name derivation as the specification words it, for comparison. *)

RefHasExtension(s) ==
  /\ Len(s) >= 4
  /\ s[Len(s) - 3] = "."
  /\ s[Len(s) - 2] \in {"s", "S"}
  /\ s[Len(s) - 1] \in {"v", "V"}
  /\ s[Len(s)] \in {"g", "G"}

RefBase(s) == IF RefHasExtension(s) THEN [i \in 1..(Len(s) - 4) |-> s[i]] ELSE s

\* position i starts a segment: an alphanumeric with none right before it
RefSegmentStart(b, i) ==
  /\ b[i] \in AsciiAlnums
  /\ (i = 1 \/ b[i - 1] \notin AsciiAlnums)

RefUpper(c) ==
  IF \E i \in DOMAIN Lower : Lower[i] = c
    THEN Upper[CHOOSE i \in DOMAIN Lower : Lower[i] = c]
    ELSE c

RECURSIVE RefRaw(_, _)
RefRaw(b, i) ==
  IF i > Len(b) THEN <<>>
  ELSE (IF b[i] \notin AsciiAlnums THEN <<>>
        ELSE IF RefSegmentStart(b, i) THEN <<RefUpper(b[i])>>
        ELSE <<b[i]>>) \o RefRaw(b, i + 1)

RefName(s) ==
  LET raw == RefRaw(RefBase(s), 1)
      safe == IF raw = <<>> THEN <<"I","c","o","n">> ELSE raw
  IN  IF safe[1] \in AsciiLetters
        THEN safe \o <<"I","c","o","n">>
        ELSE <<"I","c","o","n">> \o safe

-----------------------------------------------------------------------------
(* Properties. *)

\* fs.readdir has resolved in this run
Listed == calls.readdir /\ error.stage # "readdir"

\* buildReactComponents has just returned normally
BuildReturned == pc = "formatComponents" /\ lastOut # None /\ error = NoError

\* C1: toComponentName returns, for every file name, a non-empty string that
\* starts with an ASCII letter and holds only ASCII letters and digits.
C1_ValidIdentifier ==
  pc = "returned" =>
    /\ componentName # <<>>
    /\ componentName[1] \in AsciiLetters
    /\ \A i \in DOMAIN componentName : componentName[i] \in AsciiAlnums

\* a name that starts with a non-ASCII character and goes on with a digit
C1_Witness ==
  /\ pc = "returned"
  /\ fileName = <<"U+00E9", "1">>
  /\ componentName = <<"I","c","o","n","1">>

\* C2: the listing keeps exactly the regular files whose name ends with .svg
\* in any case, in buildReactComponents and in loadIconNames alike.
C2_Selected ==
  {n \in DOMAIN svgEntries : svgEntries[n] = "file" /\ RefHasExtension(n)}

C2_EnumerationCaseInsensitive ==
  /\ Listed => Range(svgFiles) = C2_Selected
  /\ iconNames # None => Range(iconNames[1]) = C2_Selected

\* C3: after a build that found files and returned, the destination holds
\* exactly one fresh file toComponentName(f).tsx per listed file f and nothing
\* else; arrow-up.svg and 2-circles.svg give ArrowUpIcon.tsx, Icon2Circles.tsx.
C3_DestinationIsExactlyTheOutputs ==
  (BuildReturned /\ svgFiles # <<>>) =>
    /\ compKind = "directory"
    /\ DOMAIN compFiles = {toComponentName(svgFiles[i]) \o DotTsx : i \in DOMAIN svgFiles}
    /\ \A f \in DOMAIN compFiles : compFiles[f].kind = "component"
    /\ Range(svgFiles) = {ArrowUpSvg, TwoCirclesSvg}
         => DOMAIN compFiles = {ArrowUpIconTsx, Icon2CirclesTsx}

\* the run found two stale files, one with the name of an output
C3_Witness ==
  /\ BuildReturned
  /\ Range(svgFiles) = {ArrowUpSvg, TwoCirclesSvg}
  /\ compBefore[1] = "directory"
  /\ DOMAIN compBefore[2] = {ArrowUpIconTsx, OldTsx}

\* C4: with no matching file the build returns normally and the destination
\* is as the run found it: nothing removed, created or written.
C4_EmptyInputLeavesDestination ==
  /\ (Listed /\ svgFiles = <<>>) =>
       /\ pc \in {"formatComponents", "execa prettier", "done", "failed"}
       /\ pc = "failed" => error.stage = "formatComponents"
       /\ ~calls.rm /\ ~calls.mkdir /\ calls.write = {}
  /\ (BuildReturned /\ svgFiles = <<>>) => <<compKind, compFiles>> = compBefore

\* the source holds entries but no matching file, the destination stale files
C4_Witness ==
  /\ BuildReturned
  /\ svgFiles = <<>>
  /\ DOMAIN svgEntries = {ReadmeTxt, IconSvg}
  /\ compKind = "directory"
  /\ DOMAIN compFiles = {OldTsx}

\* C5: toComponentName is the derivation of the specification, and gives the
\* identifiers the specification names.
C5_MatchesReference ==
  pc = "returned" =>
    /\ componentName = RefName(fileName)
    /\ fileName = CircleSvg =>
         componentName = <<"C","i","r","c","l","e","I","c","o","n">>
    /\ fileName = OneCircleSvg =>
         componentName = <<"I","c","o","n","1","C","i","r","c","l","e">>
    /\ fileName \in {DotSvg, UnderscoresSvg} =>
         componentName = <<"I","c","o","n","I","c","o","n">>
    /\ fileName \in {ADashBSvg, AUnderBSvg, ADotBSvg} =>
         componentName = <<"A","B","I","c","o","n">>

\* an upper-case extension after a stem of separators and a digit
C5_Witness ==
  /\ pc = "returned"
  /\ fileName = <<"_", "1", "a", ".", "S", "V", "G">>
  /\ componentName = <<"I","c","o","n","1","a">>

\* C6: the generator runs only when nothing at all is at the source path.
C6_GeneratorOnlyWhenAbsent ==
  pc = "execa sf-symbols-svg" => svgKind = "missing"

\* C7: with a regular file at the source path the run fails with an error that
\* names the path, and has changed nothing: no generator, no clearing, no
\* write, no formatter.
C7_FileAtSourceAborts ==
  (svgKind = "file" /\ pc \notin {"idle", "ensureSvgIcons"}) =>
    /\ pc = "failed"
    /\ error = Err("ensureSvgIcons", "not-a-directory", SvgDirPath)
    /\ ~calls.generator /\ ~calls.formatter
    /\ ~calls.readdir /\ ~calls.rm /\ ~calls.mkdir
    /\ calls.read = {} /\ calls.transform = {} /\ calls.write = {}
    /\ <<compKind, compFiles>> = compBefore

C7_Witness ==
  /\ svgKind = "file"
  /\ pc = "failed"
  /\ compKind = "directory"
  /\ DOMAIN compFiles = {ArrowUpIconTsx, OldTsx}

\* C8: two builds in succession on an unchanged source directory leave the
\* same set of file names in the destination.
C8_SameNamesOnRerun ==
  (prevOut # None /\ lastOut # None) => lastOut = prevOut

\* the second build wrote files
C8_Witness ==
  /\ prevOut # None
  /\ BuildReturned
  /\ Cardinality(lastOut[1]) = 2
  /\ calls.write # {}

\* C9: when the k-th file fails the run ends there: no later file is read,
\* transformed or written, the formatter is not run, the outputs of the
\* files before it are in the destination and what was there before is gone.
C9_FailureStopsTheRun ==
  error.stage \in {"readFile", "transform", "writeFile"} =>
    /\ pc = "failed"
    /\ idx \in DOMAIN svgFiles
    /\ \A j \in DOMAIN svgFiles :
         j > idx => svgFiles[j] \notin (calls.read \cup calls.transform \cup calls.write)
    /\ ~calls.formatter
    /\ \A j \in DOMAIN svgFiles :
         j < idx => toComponentName(svgFiles[j]) \o DotTsx \in DOMAIN compFiles
    /\ calls.rm
    /\ \A f \in DOMAIN compFiles : compFiles[f].kind # "stale"

\* the second of two files fails in the write, after stale files were cleared
C9_Witness ==
  /\ pc = "failed"
  /\ error.stage = "writeFile"
  /\ idx = 2
  /\ Len(svgFiles) = 2
  /\ compBefore[1] = "directory"
  /\ compBefore[2] # EmptyDir
  /\ Cardinality(DOMAIN compFiles) = 2

\* C10: when listed files derive the same identifier the build still returns,
\* with one file per identifier, holding the output for the last such file of
\* the listing.
C10_LastWriteWins ==
  (BuildReturned /\ svgFiles # <<>>) =>
    /\ Cardinality(DOMAIN compFiles)
         = Cardinality({toComponentName(svgFiles[i]) : i \in DOMAIN svgFiles})
    /\ \A f \in DOMAIN compFiles :
         LET from == {i \in DOMAIN svgFiles : toComponentName(svgFiles[i]) \o DotTsx = f}
             last == CHOOSE i \in from : \A j \in from : j <= i
         IN  /\ from # {}
             /\ compFiles[f].kind = "component"
             /\ compFiles[f].src = svgFiles[last]
             /\ compFiles[f].name = toComponentName(svgFiles[last])

\* a-b.svg listed before a_b.svg: one file, from a_b.svg
C10_Witness ==
  /\ BuildReturned
  /\ svgFiles = <<ADashBSvg, AUnderBSvg>>
  /\ DOMAIN compFiles = {<<"A","B","I","c","o","n",".","t","s","x">>}
  /\ compFiles[<<"A","B","I","c","o","n",".","t","s","x">>].src = AUnderBSvg

=============================================================================
